---- MODULE Spec2Model ----
(***************************************************************************)
(* A model of src/download.py: TwitterAPIClient (authentication and the   *)
(* tweet-detail query) and TwitterVideoDownloader (identifier parsing,    *)
(* variant extraction, the sequential variant loop and the streamed,      *)
(* progress-reporting file download).                                      *)
(***************************************************************************)
EXTENDS Integers, Sequences, FiniteSets, TLC

(***************************************************************************)
(* Part 1.  The progress percentage, int((downloaded / total_size) * 100), *)
(* as Python computes it: a true division of two ints rounded to a binary64*)
(* float, a float multiplication by 100 rounded again, and a truncation.   *)
(* Integers here are 32 bits wide, so a significand is kept as a sequence  *)
(* of limbs (digits in base 2^9, most significant first), and a float is   *)
(* [n |-> limbs, e |-> exponent], standing for n * 2^e.  The operators are *)
(* exact for 0 < downloaded, total_size < 2^21.                            *)
(***************************************************************************)

\* The significand width of a Python float (IEEE 754 binary64).
MantissaBits == 53

\* MantissaBits + 1 bits are 6 limbs of 9 bits.
LimbBits == 3 * 3
Base == 2 ^ LimbBits

RECURSIVE LimbsToInt(_)
LimbsToInt(l) ==
    IF l = <<>> THEN 0
    ELSE Base * LimbsToInt(SubSeq(l, 1, Len(l) - 1)) + l[Len(l)]

\* l * k + carry, one limb longer than l.
RECURSIVE MulSmall(_, _, _)
MulSmall(l, k, carry) ==
    IF l = <<>> THEN <<carry>>
    ELSE LET n == Len(l)
             p == l[n] * k + carry
         IN  Append(MulSmall(SubSeq(l, 1, n - 1), k, p \div Base), p % Base)

RECURSIVE IntBitLen(_)
IntBitLen(v) == IF v = 0 THEN 0 ELSE 1 + IntBitLen(v \div 2)

RECURSIVE BitLen(_)
BitLen(l) ==
    IF l = <<>> THEN 0
    ELSE IF l[1] = 0 THEN BitLen(Tail(l))
    ELSE (Len(l) - 1) * LimbBits + IntBitLen(l[1])

\* Bit i (bit 0 is the least significant) of the number l.
BitAt(l, i) ==
    LET k == Len(l) - (i \div LimbBits)
    IN  IF k < 1 THEN 0 ELSE (l[k] \div (2 ^ (i % LimbBits))) % 2

\* Round-half-to-even of the number l at bit `drop` (1 <= drop <= LimbBits):
\* the low `drop` bits become 0; sticky says that a non-zero part below l
\* was already cut off.
RoundAt(l, drop, sticky) ==
    LET n     == Len(l)
        low   == l[n] % (2 ^ drop)
        guard == BitAt(l, drop - 1)
        rest  == sticky \/ low % (2 ^ (drop - 1)) # 0
        up    == guard = 1 /\ (rest \/ BitAt(l, drop) = 1)
        cut   == [l EXCEPT ![n] = l[n] - low]
    IN  IF up THEN MulSmall(cut, 1, 2 ^ drop) ELSE <<0>> \o cut

\* The least k with d < t * 2^k: d / (t * 2^k) is then a fraction below 1.
RECURSIVE ScaleExp(_, _, _)
ScaleExp(d, t, k) == IF d < t THEN k ELSE ScaleExp(d, 2 * t, k + 1)

\* The zero bits that lead the binary expansion of r / den, 0 < r < den.
RECURSIVE SkipZeros(_, _, _)
SkipZeros(r, den, z) ==
    IF 2 * r >= den THEN [r |-> r, z |-> z] ELSE SkipZeros(2 * r, den, z + 1)

\* The next n limbs of the expansion of r / den, and the remainder left.
RECURSIVE LongDiv(_, _, _)
LongDiv(r, den, n) ==
    IF n = 0 THEN [limbs |-> <<>>, rem |-> r]
    ELSE LET rest == LongDiv((r * Base) % den, den, n - 1)
         IN  [limbs |-> <<(r * Base) \div den>> \o rest.limbs, rem |-> rest.rem]

\* downloaded / total_size: the quotient of two positive ints as a float.
\* The expansion is cut after MantissaBits + 1 bits (the last is the guard
\* bit) and rounded to MantissaBits.
TrueDiv(d, t) ==
    LET k   == ScaleExp(d, t, 0)
        den == t * (2 ^ k)
        s   == SkipZeros(d, den, 0)
        q   == LongDiv(s.r, den, (MantissaBits + 1) \div LimbBits)
    IN  [n |-> RoundAt(q.limbs, 1, q.rem # 0),
         e |-> k - s.z - (MantissaBits + 1)]

\* f * 100: the exact product, rounded to MantissaBits significant bits.
MulHundred(f) ==
    LET p == MulSmall(f.n, 100, 0)
    IN  [n |-> RoundAt(p, BitLen(p) - MantissaBits, FALSE), e |-> f.e]

\* int(f) of a non-negative float below 2^22: the bits left of the point.
Truncate(f) ==
    LET s    == 0 - f.e
        kept == SubSeq(f.n, 1, Len(f.n) - (s \div LimbBits))
    IN  LimbsToInt(kept) \div (2 ^ (s % LimbBits))

\* A variant that takes int(downloaded / total_size) * 100.
PercentageOfFloor(downloaded, total_size) ==
    (downloaded \div total_size) * 100

\* percentage = int((downloaded / total_size) * 100)
Percentage(downloaded, total_size) ==
    Truncate(MulHundred(TrueDiv(downloaded, total_size)))

(***************************************************************************)
(* Part 2.  JSON values as Python holds them after response.json(), the   *)
(* subscript operation obj[key] with the exception it raises, and          *)
(* _extract_video_variants.                                                *)
(***************************************************************************)

\* Each kind of value keeps its payload in a field of its own.
JNull    == [t |-> "null"]
JInt(n)  == [t |-> "int", n |-> n]
JStr(s)  == [t |-> "str", s |-> s]
JList(q) == [t |-> "list", items |-> q]
JDict(f) == [t |-> "dict", map |-> f]

\* A dict with no key: its map is the function of empty domain.
EmptyMap == <<>>

\* A subscript: a string key or an integer index.
Key(s) == [kind |-> "key", s |-> s, i |-> 0]
Idx(i) == [kind |-> "idx", s |-> "", i |-> i]

\* The characters of a str.  A string is atomic here, and the strings that
\* the model puts where a container is expected are "" and one character.
StrChars(s) == IF s = "" THEN <<>> ELSE <<s>>

Ok(val)    == [exc |-> "none", val |-> val]
Raise(exc) == [exc |-> exc, val |-> JNull]

\* obj[k] in Python: a dict raises KeyError on an absent key (a JSON object
\* has string keys only), a list or a str raises IndexError out of range and
\* TypeError on a string subscript, anything else is not subscriptable.
GetItem(obj, k) ==
    CASE obj.t = "dict" ->
            IF k.kind = "key" /\ k.s \in DOMAIN obj.map
            THEN Ok(obj.map[k.s]) ELSE Raise("KeyError")
      [] obj.t = "list" ->
            IF k.kind = "key" THEN Raise("TypeError")
            ELSE IF k.i + 1 \in DOMAIN obj.items
                 THEN Ok(obj.items[k.i + 1]) ELSE Raise("IndexError")
      [] obj.t = "str" ->
            IF k.kind = "key" THEN Raise("TypeError")
            ELSE IF k.i + 1 \in DOMAIN StrChars(obj.s)
                 THEN Ok(JStr(StrChars(obj.s)[k.i + 1])) ELSE Raise("IndexError")
      [] OTHER -> Raise("TypeError")

\* obj[k1][k2]...: the first exception ends the chain.
RECURSIVE GetPath(_, _)
GetPath(obj, path) ==
    IF path = <<>> THEN Ok(obj)
    ELSE LET r == GetItem(obj, Head(path))
         IN  IF r.exc # "none" THEN r ELSE GetPath(r.val, Tail(path))

MediaPath ==
    <<Key("data"), Key("tweetResult"), Key("result"), Key("legacy"),
      Key("entities"), Key("media"), Idx(0)>>
VariantsPath == <<Key("video_info"), Key("variants")>>

MP4 == "video/mp4"

\* What `for variant in variants` iterates over: the items of a list, the
\* keys of a dict, the characters of a str; anything else is not iterable.
IterItems(obj) ==
    CASE obj.t = "list" -> Ok(obj.items)
      [] obj.t = "str"  ->
            Ok([i \in DOMAIN StrChars(obj.s) |-> JStr(StrChars(obj.s)[i])])
      [] obj.t = "dict" ->
            LET keys == DOMAIN obj.map
                ord  == CHOOSE q \in [1..Cardinality(keys) -> keys] :
                            \A i, j \in DOMAIN q : i # j => q[i] # q[j]
            IN  Ok([i \in DOMAIN ord |-> JStr(ord[i])])
      [] OTHER -> Raise("TypeError")

\* A variant of the comprehension without its `if` filter.
VariantOfNoFilter(variant) ==
    LET ct  == GetItem(variant, Key("content_type"))
        br  == GetItem(variant, Key("bitrate"))
        url == GetItem(variant, Key("url"))
    IN  IF ct.exc # "none" THEN [exc |-> ct.exc, keep |-> FALSE, val |-> JNull]
        ELSE IF url.exc # "none" THEN [exc |-> url.exc, keep |-> FALSE, val |-> JNull]
        ELSE [exc |-> "none", keep |-> TRUE,
              val |-> [bitrate |-> IF br.exc = "none" THEN br.val ELSE JInt(0),
                       url |-> url.val,
                       content_type |-> ct.val]]

\* One turn of the comprehension: the filter variant["content_type"] ==
\* "video/mp4" is evaluated first, then bitrate, url and content_type.
VariantOf(variant) ==
    LET ct == GetItem(variant, Key("content_type"))
    IN  IF ct.exc # "none" THEN [exc |-> ct.exc, keep |-> FALSE, val |-> JNull]
        ELSE IF ct.val # JStr(MP4) THEN [exc |-> "none", keep |-> FALSE, val |-> JNull]
        ELSE LET br  == GetItem(variant, Key("bitrate"))
                 url == GetItem(variant, Key("url"))
             IN  IF url.exc # "none"
                 THEN [exc |-> url.exc, keep |-> FALSE, val |-> JNull]
                 ELSE [exc |-> "none", keep |-> TRUE,
                       val |-> [bitrate |-> IF br.exc = "none" THEN br.val ELSE JInt(0),
                                url |-> url.val,
                                content_type |-> ct.val]]

RECURSIVE Comprehension(_)
Comprehension(items) ==
    IF items = <<>> THEN [exc |-> "none", val |-> <<>>]
    ELSE LET one == VariantOf(Head(items))
         IN  IF one.exc # "none" THEN [exc |-> one.exc, val |-> <<>>]
             ELSE LET rest == Comprehension(Tail(items))
                  IN  IF rest.exc # "none" THEN rest
                      ELSE [exc |-> "none",
                            val |-> IF one.keep THEN <<one.val>> \o rest.val
                                    ELSE rest.val]

ExtractionError == "ValueError: Could not find video information in tweet data"
NoVideoError    == "ValueError: No video found in tweet"

\* except (KeyError, IndexError): raise ValueError(...); any other exception
\* leaves the function as it is.
Translate(exc) ==
    IF exc \in {"KeyError", "IndexError"} THEN ExtractionError ELSE exc

\* _extract_video_variants(tweet_data): [exc, val], exc = "none" on return.
ExtractVideoVariants(tweet_data) ==
    LET media == GetPath(tweet_data, MediaPath)
    IN  IF media.exc # "none" THEN [exc |-> Translate(media.exc), val |-> <<>>]
        ELSE LET variants == GetPath(media.val, VariantsPath)
             IN  IF variants.exc # "none"
                 THEN [exc |-> Translate(variants.exc), val |-> <<>>]
                 ELSE LET items == IterItems(variants.val)
                      IN  IF items.exc # "none"
                          THEN [exc |-> Translate(items.exc), val |-> <<>>]
                          ELSE LET out == Comprehension(items.val)
                               IN  [exc |-> Translate(out.exc), val |-> out.val]

(***************************************************************************)
(* Part 3.  Strings that the program parses or builds: the tweet URL (a    *)
(* sequence of characters), the tweet id found in it by the pattern        *)
(* (?<=status/)\d+, and the output file name tweet_<id>_<bitrate>.mp4.     *)
(***************************************************************************)

Digits == {"0", "1", "2", "3", "4", "5", "6", "7", "8", "9"}
StatusMarker == <<"s", "t", "a", "t", "u", "s", "/">>

\* A match of (?<=status/)\d+ starts at i: a digit with "status/" before it.
MatchAt(url, i) ==
    /\ i > Len(StatusMarker)
    /\ SubSeq(url, i - Len(StatusMarker), i - 1) = StatusMarker
    /\ url[i] \in Digits

\* \d+ is greedy: the whole run of digits from i on.
RECURSIVE DigitRun(_, _)
DigitRun(url, i) ==
    IF i <= Len(url) /\ url[i] \in Digits
    THEN <<url[i]>> \o DigitRun(url, i + 1) ELSE <<>>

ParseError == "ValueError: Could not parse tweet ID from URL"

\* A variant of _extract_tweet_id without its `if not tweet_id: raise`.
ExtractTweetIdUnchecked(tweet_url) ==
    LET starts == {i \in 1..Len(tweet_url) : MatchAt(tweet_url, i)}
    IN  IF starts = {} THEN [exc |-> "none", val |-> <<>>]
        ELSE [exc |-> "none",
              val |-> DigitRun(tweet_url,
                               CHOOSE i \in starts : \A j \in starts : i <= j)]

\* _extract_tweet_id(tweet_url): re.findall(...)[0], the leftmost match.
ExtractTweetId(tweet_url) ==
    LET starts == {i \in 1..Len(tweet_url) : MatchAt(tweet_url, i)}
    IN  IF starts = {} THEN [exc |-> ParseError, val |-> <<>>]
        ELSE [exc |-> "none",
              val |-> DigitRun(tweet_url,
                               CHOOSE i \in starts : \A j \in starts : i <= j)]

DigitChars == <<"0", "1", "2", "3", "4", "5", "6", "7", "8", "9">>

\* str(n) of a non-negative int, as the f-string formats the bitrate.
RECURSIVE Str(_)
Str(n) ==
    IF n < 10 THEN <<DigitChars[n + 1]>>
    ELSE Str(n \div 10) \o <<DigitChars[(n % 10) + 1]>>

\* A variant of the file name that leaves the bitrate out.
FileNameNoBitrate(tweet_id, bitrate) ==
    <<"tweet_">> \o tweet_id \o <<".mp4">>

\* f"tweet_{tweet_id}_{variant.bitrate}.mp4"
FileName(tweet_id, bitrate) ==
    <<"tweet_">> \o tweet_id \o <<"_">> \o Str(bitrate) \o <<".mp4">>

(***************************************************************************)
(* Part 4.  The program state and the environment it talks to.             *)
(***************************************************************************)

VARIABLES
    pc,             \* where the running call stands
    tweet_url,      \* the argument of download_video
    headers,        \* self.session.headers
    bearer_token,   \* self.bearer_token
    guest_token,    \* self.guest_token
    requests,       \* the outbound HTTP requests issued so far, in order
    stages,         \* the stages of download_video entered so far, in order
    tweet_id,       \* tweet_id of download_video
    tweet_data,     \* the decoded tweet-detail response
    video_variants, \* the list _extract_video_variants returned
    idx,            \* the variants of the loop completed so far
    error,          \* the exception that reached the caller, "none" if none
    dir_exists,     \* whether the output directory exists
    fs,             \* the output directory: file name -> content
    server,         \* the video host: url -> length of the body in bytes
    dl,             \* the activation of _download_file
    progress,       \* the percentages logged by the current download
    uniform,        \* every chunk so far was a tenth of total_size
    results         \* what direct calls of _extract_video_variants returned

vars ==
    <<pc, tweet_url, headers, bearer_token, guest_token, requests, stages,
      tweet_id, tweet_data, video_variants, idx, error, dir_exists, fs,
      server, dl, progress, uniform, results>>

\* ---- bounds of the model ----

\* The longest variant list of a media description.
MaxVariants == 2
\* Direct calls of the extractor on one description.
MaxCalls == 2
\* The longest body the video host serves to download_video, in bytes.
MaxBody == 2
\* Content lengths of the streamed download: 10, 20, ..., 10 * MaxTens (and
\* 1000).
MaxTens == 12

\* ---- HTTP ----

\* requests' own headers, sent by requests.get and the start of a Session.
DefaultHeaders ==
    ("user-agent" :> <<"python-requests">>) @@ ("accept" :> <<"*/*">>)
    @@ ("accept-encoding" :> <<"gzip, deflate">>)
    @@ ("connection" :> <<"keep-alive">>)

BrowserHeaders ==
    ("user-agent" :> <<"Mozilla/5.0 (Windows NT 10.0; Win64; x64; rv:84.0) Gecko/20100101 Firefox/84.0">>)
    @@ ("accept" :> <<"*/*">>)
    @@ ("accept-language" :> <<"de,en-US;q=0.7,en;q=0.3">>)
    @@ ("accept-encoding" :> <<"gzip, deflate, br">>)
    @@ ("te" :> <<"trailers">>)

\* session.headers.update(u)
Update(h, u) == u @@ h

\* _setup_session on a fresh requests.Session()
SetupSession == Update(DefaultHeaders, BrowserHeaders)

Authorization(token) == "authorization" :> <<"Bearer ", token>>
GuestHeader(token)   == "x-guest-token" :> <<token>>

\* One outbound request: authed says that authenticate() had returned.
Req(method, to, arg, h, authed) ==
    [method |-> method, to |-> to, arg |-> arg, headers |-> h, authed |-> authed]

\* What re.findall(r'AAAAAAAAA[^"]+', response.text) finds in main.js.
ScriptMatches ==
    {<<>>, <<"AAAAAAAAAb1">>, <<"AAAAAAAAAb1", "AAAAAAAAAb2">>}
GuestTokens == {"g1"}

\* ---- the inputs ----

Host == <<"x", ".", "c", "o", "m", "/", "u", "/">>
TweetURLs ==
    { Host \o StatusMarker \o <<"1", "2">>,
      Host \o StatusMarker \o <<"7", "?", "s", "=", "2">>,
      Host \o StatusMarker \o <<"a", "/">> \o StatusMarker \o <<"3", "/">>
           \o StatusMarker \o <<"4">>,
      Host \o StatusMarker,
      Host \o <<"1", "2">>,
      Host \o <<"s", "t", "a", "t", "u", "s", "e", "s", "/", "1">> }

Absent == "absent"
HLS == "application/x-mpegURL"
VideoURLs == {"U1", "U2"}

NoBitrate == 0 - 1

Opt(key, present, val) == IF present THEN key :> val ELSE EmptyMap
\* One entry of the variants list; Absent and NoBitrate leave a field out.
Entry(ct, url, br) ==
    JDict(Opt("content_type", ct # Absent, JStr(ct))
          @@ Opt("url", url # Absent, JStr(url))
          @@ Opt("bitrate", br # NoBitrate, JInt(br)))

\* leaf, nested in the dicts and lists that path walks through.
RECURSIVE Nest(_, _)
Nest(path, leaf) ==
    IF path = <<>> THEN leaf
    ELSE IF Head(path).kind = "key"
         THEN JDict(Head(path).s :> Nest(Tail(path), leaf))
         ELSE JList(<<Nest(Tail(path), leaf)>>)

FullPath == MediaPath \o VariantsPath

SeqsUpTo(S, n) == UNION {[1..k -> S] : k \in 0..n}

\* What stands where the path expects a dict or a list.
Defects ==
    {JNull, JInt(1), JStr(""), JStr("x"), JDict(EmptyMap), JList(<<>>)}

Truncated ==
    {Nest(SubSeq(FullPath, 1, d), x) : d \in 0..Len(FullPath), x \in Defects}

ExtractEntries ==
    {Entry(ct, u, b) : ct \in {Absent, MP4, HLS}, u \in {Absent, "U1", "U2"},
                       b \in {NoBitrate, 0, 832000}}
    \cup {JNull, JStr("x")}

\* The descriptions the extractor is called on directly.
ExtractInputs ==
    Truncated \cup {Nest(FullPath, JList(q)) : q \in SeqsUpTo(ExtractEntries, MaxVariants)}

PipelineEntries ==
    {Entry(MP4, u, b) : u \in VideoURLs, b \in {NoBitrate, 1}}
    \cup {Entry(HLS, "U3", 1)}

\* The tweet-detail responses that download_video meets.
PipelineInputs ==
    {Nest(FullPath, JList(q)) : q \in SeqsUpTo(PipelineEntries, MaxVariants)}
    \cup {Nest(SubSeq(FullPath, 1, 3), JNull),
          Nest(SubSeq(FullPath, 1, 6), JList(<<>>))}

PipelineServer == ("U1" :> MaxBody) @@ ("U2" :> 1)

\* ---- the file system ----

\* open(output_path, 'wb'): the file is created, or cut to nothing.
OpenWB(files, path, url) == (path :> [src |-> url, bytes |-> 0]) @@ files

\* if output_path.exists(): output_path.unlink()
Unlink(files, path) == [n \in DOMAIN files \ {path} |-> files[n]]

\* f.write(chunk) of n more bytes of the body
WriteBytes(files, path, n) ==
    [files EXCEPT ![path] = [src |-> files[path].src, bytes |-> files[path].bytes + n]]

IdleDl ==
    [st |-> "idle", url |-> "", path |-> <<>>, total_size |-> 0, chunk |-> 0,
     downloaded |-> 0, percentage |-> 0, opened |-> FALSE]

(***************************************************************************)
(* Part 5.  download_video, one action per stage; a stage that talks to    *)
(* the network chooses what the network answers.                           *)
(***************************************************************************)

Fail(exc) == pc' = "failed" /\ error' = exc

\* TwitterAPIClient._get_bearer_token, the first step of authenticate()
GetBearerToken ==
    /\ pc = "bearer"
    /\ stages' = Append(stages, "authenticate")
    /\ requests' = Append(requests, Req("GET", "mainjs", <<>>, headers, FALSE))
    /\ \/ \* the GET or raise_for_status raises a RequestException
          /\ Fail("TwitterAPIError")
          /\ UNCHANGED bearer_token
       \/ \E found \in ScriptMatches :
             IF found = <<>>
             THEN Fail("TwitterAPIError") /\ UNCHANGED bearer_token
             ELSE pc' = "guest" /\ bearer_token' = found[1] /\ UNCHANGED error
    /\ UNCHANGED <<tweet_url, headers, guest_token, tweet_id, tweet_data,
                   video_variants, idx, dir_exists, fs, server, dl, progress,
                   uniform, results>>

\* TwitterAPIClient._get_guest_token and the rest of authenticate()
GetGuestToken ==
    /\ pc = "guest"
    /\ LET sent == Update(headers, Authorization(bearer_token))
       IN  /\ requests' = Append(requests, Req("POST", "activate", <<>>, sent, FALSE))
           /\ \/ \* the POST, raise_for_status or json() raises a RequestException
                 /\ Fail("TwitterAPIError")
                 /\ headers' = sent
                 /\ UNCHANGED guest_token
              \/ \* the JSON body has no "guest_token"
                 /\ Fail("KeyError")
                 /\ headers' = sent
                 /\ UNCHANGED guest_token
              \/ \E g \in GuestTokens :
                    /\ guest_token' = g
                    /\ headers' = Update(sent, Authorization(bearer_token) @@ GuestHeader(g))
                    /\ pc' = "parse"
                    /\ UNCHANGED error
    /\ UNCHANGED <<tweet_url, bearer_token, stages, tweet_id, tweet_data,
                   video_variants, idx, dir_exists, fs, server, dl, progress,
                   uniform, results>>

\* tweet_id = self._extract_tweet_id(tweet_url)
ParseTweetId ==
    /\ pc = "parse"
    /\ stages' = Append(stages, "parse")
    /\ LET r == ExtractTweetId(tweet_url)
       IN  IF r.exc # "none" THEN Fail(r.exc) /\ UNCHANGED tweet_id
           ELSE pc' = "details" /\ tweet_id' = r.val /\ UNCHANGED error
    /\ UNCHANGED <<tweet_url, headers, bearer_token, guest_token, requests,
                   tweet_data, video_variants, idx, dir_exists, fs, server, dl,
                   progress, uniform, results>>

\* TwitterAPIClient.get_tweet_details
GetTweetDetails ==
    /\ pc = "details"
    /\ stages' = Append(stages, "resolve")
    /\ requests' = Append(requests, Req("GET", "detail", tweet_id, headers, TRUE))
    /\ \/ \* the GET, raise_for_status or json() raises a RequestException
          /\ Fail("TwitterAPIError")
          /\ UNCHANGED tweet_data
       \/ \E data \in PipelineInputs :
             /\ tweet_data' = data
             /\ pc' = "extract"
             /\ UNCHANGED error
    /\ UNCHANGED <<tweet_url, headers, bearer_token, guest_token, tweet_id,
                   video_variants, idx, dir_exists, fs, server, dl, progress,
                   uniform, results>>

\* A variant of the check that never finds the list empty.
NoVideoNever(variants) == FALSE

\* if not video_variants
NoVideo(variants) == variants = <<>>

\* video_variants = self._extract_video_variants(tweet_data), and the check
ExtractVariants ==
    /\ pc = "extract"
    /\ stages' = Append(stages, "extract")
    /\ LET r == ExtractVideoVariants(tweet_data)
       IN  IF r.exc # "none" THEN Fail(r.exc) /\ UNCHANGED video_variants
           ELSE /\ video_variants' = r.val
                /\ IF NoVideo(r.val) THEN Fail(NoVideoError)
                   ELSE pc' = "mkdir" /\ UNCHANGED error
    /\ UNCHANGED <<tweet_url, headers, bearer_token, guest_token, requests,
                   tweet_id, tweet_data, idx, dir_exists, fs, server, dl,
                   progress, uniform, results>>

\* _download_video_variants up to its loop: output_dir.mkdir(parents=True,
\* exist_ok=True)
MakeOutputDir ==
    /\ pc = "mkdir"
    /\ stages' = Append(stages, "download")
    /\ dir_exists' = TRUE
    /\ idx' = 0
    /\ pc' = "download"
    /\ UNCHANGED <<tweet_url, headers, bearer_token, guest_token, requests,
                   tweet_id, tweet_data, video_variants, error, fs, server, dl,
                   progress, uniform, results>>

(***************************************************************************)
(* Part 6.  _download_video_variants' loop and _download_file.             *)
(***************************************************************************)

\* block_size = 8192
block_size == 8192

\* The size in which response.iter_content(chunk_size=block_size) hands out
\* a body of the declared length: at most a block, and here one byte, at
\* most a tenth of the length, or the whole of it.  Every chunk has that
\* size but the last, which is what is left.
ChunkPlans(total_size) ==
    {c \in 1..total_size :
        c <= block_size /\ (c = 1 \/ c * 10 <= total_size \/ c = total_size)}

\* if percentage % 10 == 0: logger.info(f"Download progress: {percentage}%")
Notify(log, percentage) ==
    IF percentage % 10 = 0 THEN Append(log, percentage) ELSE log

CurVariant == video_variants[idx + 1]

\* The exception leaves _download_file, _download_video_variants and
\* download_video (which logs it and re-raises it).
RaiseFromDownload(exc) ==
    /\ dl' = [dl EXCEPT !.st = "raised"]
    /\ Fail(exc)

\* for variant in variants: ... self._download_file(variant.url, output_path),
\* up to the open of the destination
DownloadStart ==
    /\ pc = "download"
    /\ dl.st = "idle"
    /\ idx < Len(video_variants)
    /\ LET url  == CurVariant.url.s
           path == FileName(tweet_id, CurVariant.bitrate.n)
           call == [st |-> "get", url |-> url, path |-> path, total_size |-> 0,
                    chunk |-> 0, downloaded |-> 0, percentage |-> 0,
                    opened |-> FALSE]
       IN  /\ requests' = Append(requests, Req("GET", "video", <<url>>, DefaultHeaders, TRUE))
           /\ progress' = <<>>
           /\ uniform' = TRUE
           /\ \/ \* requests.get or raise_for_status raises a RequestException
                 /\ fs' = Unlink(fs, path)
                 /\ dl' = [call EXCEPT !.st = "raised"]
                 /\ Fail("RequestException")
              \/ \* int() of the content-length header raises ValueError
                 /\ dl' = [call EXCEPT !.st = "raised"]
                 /\ Fail("ValueError")
                 /\ UNCHANGED fs
              \/ \* open(output_path, 'wb') raises OSError
                 /\ dl' = [call EXCEPT !.st = "raised"]
                 /\ Fail("OSError")
                 /\ UNCHANGED fs
              \/ \* no content-length header: total_size = 0
                 /\ fs' = OpenWB(fs, path, url)
                 /\ dl' = [call EXCEPT !.st = "writing", !.opened = TRUE]
                 /\ UNCHANGED <<pc, error>>
              \/ \E chunk \in ChunkPlans(server[url]) :
                    /\ fs' = OpenWB(fs, path, url)
                    /\ dl' = [call EXCEPT !.st = "writing", !.opened = TRUE,
                                          !.total_size = server[url],
                                          !.chunk = chunk]
                    /\ UNCHANGED <<pc, error>>
    /\ UNCHANGED <<tweet_url, headers, bearer_token, guest_token, stages,
                   tweet_id, tweet_data, video_variants, idx, dir_exists,
                   server, results>>

\* if total_size == 0: f.write(response.content)
WriteWhole ==
    /\ dl.st = "writing"
    /\ dl.total_size = 0
    /\ \/ /\ fs' = WriteBytes(fs, dl.path, server[dl.url])
          /\ dl' = [dl EXCEPT !.st = "done"]
          /\ UNCHANGED <<pc, error>>
       \/ \* reading response.content raises a RequestException
          /\ fs' = Unlink(fs, dl.path)
          /\ RaiseFromDownload("RequestException")
       \/ \* f.write raises OSError after k bytes
          \E k \in 0..(server[dl.url] - 1) :
             /\ fs' = WriteBytes(fs, dl.path, k)
             /\ RaiseFromDownload("OSError")
    /\ UNCHANGED <<tweet_url, headers, bearer_token, guest_token, requests,
                   stages, tweet_id, tweet_data, video_variants, idx,
                   dir_exists, server, progress, uniform, results>>

\* One turn of `for chunk in response.iter_content(chunk_size=block_size)`
WriteChunk ==
    /\ dl.st = "writing"
    /\ dl.total_size # 0
    /\ dl.downloaded < server[dl.url]
    /\ \/ LET left       == server[dl.url] - dl.downloaded
              c          == IF dl.chunk <= left THEN dl.chunk ELSE left
              downloaded == dl.downloaded + c
              percentage == Percentage(downloaded, dl.total_size)
          IN  /\ fs' = WriteBytes(fs, dl.path, c)
              /\ dl' = [dl EXCEPT !.downloaded = downloaded,
                                    !.percentage = percentage]
              /\ progress' = Notify(progress, percentage)
              /\ uniform' = (uniform /\ c * 10 = dl.total_size)
              /\ UNCHANGED <<pc, error>>
       \/ \* iter_content raises a RequestException
          /\ fs' = Unlink(fs, dl.path)
          /\ RaiseFromDownload("RequestException")
          /\ UNCHANGED <<progress, uniform>>
       \/ \* f.write(chunk) raises OSError
          /\ RaiseFromDownload("OSError")
          /\ UNCHANGED <<fs, progress, uniform>>
    /\ UNCHANGED <<tweet_url, headers, bearer_token, guest_token, requests,
                   stages, tweet_id, tweet_data, video_variants, idx,
                   dir_exists, server, results>>

\* The iterator is exhausted: the file is closed and _download_file returns.
StreamEnd ==
    /\ dl.st = "writing"
    /\ dl.total_size # 0
    /\ dl.downloaded = server[dl.url]
    /\ dl' = [dl EXCEPT !.st = "done"]
    /\ UNCHANGED <<pc, tweet_url, headers, bearer_token, guest_token, requests,
                   stages, tweet_id, tweet_data, video_variants, idx, error,
                   dir_exists, fs, server, progress, uniform, results>>

\* logger.info(f"Downloaded video: {output_path}"), and the next variant
NextVariant ==
    /\ pc = "download"
    /\ dl.st = "done"
    /\ idx' = idx + 1
    /\ dl' = IdleDl
    /\ UNCHANGED <<pc, tweet_url, headers, bearer_token, guest_token, requests,
                   stages, tweet_id, tweet_data, video_variants, error,
                   dir_exists, fs, server, progress, uniform, results>>

\* The loop is over: download_video returns.
Return ==
    /\ pc = "download"
    /\ dl.st = "idle"
    /\ idx = Len(video_variants)
    /\ pc' = "done"
    /\ UNCHANGED <<tweet_url, headers, bearer_token, guest_token, requests,
                   stages, tweet_id, tweet_data, video_variants, idx, error,
                   dir_exists, fs, server, dl, progress, uniform, results>>

\* A direct call of the static method _extract_video_variants(tweet_data)
CallExtract ==
    /\ pc = "extractor"
    /\ Len(results) < MaxCalls
    /\ results' = Append(results, ExtractVideoVariants(tweet_data))
    /\ UNCHANGED <<pc, tweet_url, headers, bearer_token, guest_token, requests,
                   stages, tweet_id, tweet_data, video_variants, idx, error,
                   dir_exists, fs, server, dl, progress, uniform>>

(***************************************************************************)
(* Part 7.  The specifications.                                            *)
(***************************************************************************)

\* TwitterVideoDownloader() and the call download_video(tweet_url, output_dir)
Init ==
    /\ pc = "bearer"
    /\ tweet_url \in TweetURLs
    /\ headers = SetupSession
    /\ bearer_token = ""
    /\ guest_token = ""
    /\ requests = <<>>
    /\ stages = <<>>
    /\ tweet_id = <<>>
    /\ tweet_data = JNull
    /\ video_variants = <<>>
    /\ idx = 0
    /\ error = "none"
    /\ dir_exists \in BOOLEAN
    /\ fs = EmptyMap
    /\ server = PipelineServer
    /\ dl = IdleDl
    /\ progress = <<>>
    /\ uniform = TRUE
    /\ results = <<>>

Next ==
    \/ GetBearerToken
    \/ GetGuestToken
    \/ ParseTweetId
    \/ GetTweetDetails
    \/ ExtractVariants
    \/ MakeOutputDir
    \/ DownloadStart
    \/ WriteWhole
    \/ WriteChunk
    \/ StreamEnd
    \/ NextVariant
    \/ Return

Spec == Init /\ [][Next]_vars

\* The static method _extract_video_variants, called on any description.
InitExtract ==
    /\ pc = "extractor"
    /\ tweet_url = <<>>
    /\ headers = SetupSession
    /\ bearer_token = ""
    /\ guest_token = ""
    /\ requests = <<>>
    /\ stages = <<>>
    /\ tweet_id = <<>>
    /\ tweet_data \in ExtractInputs
    /\ video_variants = <<>>
    /\ idx = 0
    /\ error = "none"
    /\ dir_exists = FALSE
    /\ fs = EmptyMap
    /\ server = PipelineServer
    /\ dl = IdleDl
    /\ progress = <<>>
    /\ uniform = TRUE
    /\ results = <<>>

SpecExtract == InitExtract /\ [][CallExtract]_vars

\* The content lengths of the streamed download.
Totals == {10 * tens : tens \in 1..MaxTens} \cup {1000}

\* download_video at the start of its loop over one variant, whose body has
\* one of the lengths of Totals.
InitDownload ==
    /\ pc = "download"
    /\ tweet_url = Host \o StatusMarker \o <<"1", "2">>
    /\ bearer_token = "AAAAAAAAAb1"
    /\ guest_token = "g1"
    /\ headers = Update(SetupSession, Authorization(bearer_token) @@ GuestHeader(guest_token))
    /\ requests = <<>>
    /\ stages = <<"authenticate", "parse", "resolve", "extract", "download">>
    /\ tweet_id = <<"1", "2">>
    /\ tweet_data = Nest(FullPath, JList(<<Entry(MP4, "U1", 1)>>))
    /\ video_variants = ExtractVideoVariants(tweet_data).val
    /\ idx = 0
    /\ error = "none"
    /\ dir_exists = TRUE
    /\ fs = EmptyMap
    /\ \E total \in Totals : server = ("U1" :> total)
    /\ dl = IdleDl
    /\ progress = <<>>
    /\ uniform = TRUE
    /\ results = <<>>

NextDownload ==
    \/ DownloadStart
    \/ WriteWhole
    \/ WriteChunk
    \/ StreamEnd
    \/ NextVariant
    \/ Return

SpecDownload == InitDownload /\ [][NextDownload]_vars

(***************************************************************************)
(* Part 8.  The properties.                                                *)
(***************************************************************************)

IsPrefix(q, r) == Len(q) <= Len(r) /\ q = SubSeq(r, 1, Len(q))

HasId(url) == \E i \in 1..Len(url) : MatchAt(url, i)

VideoRequests == SelectSeq(requests, LAMBDA r : r.to = "video")

\* The path is there with the shape the extractor expects: dicts holding
\* the keys, a media list with a first item, a list of variants.
RECURSIVE Resolves(_, _)
Resolves(obj, path) ==
    \/ path = <<>>
    \/ /\ IF Head(path).kind = "key"
          THEN obj.t = "dict" /\ Head(path).s \in DOMAIN obj.map
          ELSE obj.t = "list" /\ Head(path).i + 1 \in DOMAIN obj.items
       /\ Resolves(IF Head(path).kind = "key" THEN obj.map[Head(path).s]
                   ELSE obj.items[Head(path).i + 1],
                   Tail(path))

HasVariantList(data) ==
    Resolves(data, FullPath) /\ GetPath(data, FullPath).val.t = "list"

VariantEntries(data) == GetPath(data, FullPath).val.items

HasField(entry, key) == entry.t = "dict" /\ key \in DOMAIN entry.map

IsMP4(entry) == HasField(entry, "content_type") /\ entry.map["content_type"] = JStr(MP4)

\* Every variant entry is a dict with its url and its content type.
WellFormed(data) ==
    /\ HasVariantList(data)
    /\ \A i \in DOMAIN VariantEntries(data) :
          /\ HasField(VariantEntries(data)[i], "url")
          /\ HasField(VariantEntries(data)[i], "content_type")

\* The file the loop writes for its k-th variant, as the specification
\* names it, the url it is fetched from, and the whole body of that url.
NameOf(k) ==
    <<"tweet_">> \o tweet_id \o <<"_">> \o Str(video_variants[k].bitrate.n)
    \o <<".mp4">>
UrlOf(k) == video_variants[k].url.s
WholeBody(url) == [src |-> url, bytes |-> server[url]]
\* The last of the variants 1..n that is written to the file of variant k.
LastNamed(k, n) ==
    CHOOSE j \in 1..n : /\ NameOf(j) = NameOf(k)
                        /\ \A i \in 1..n : NameOf(i) = NameOf(k) => i <= j

\* C1: when a download fails after its destination was opened for writing,
\* whatever failed (the transport or the local write), no file is at the
\* destination when the error reaches the caller.
C1_NoPartialArtifact ==
    (pc = "failed" /\ dl.st = "raised" /\ dl.opened) => dl.path \notin DOMAIN fs

C3_AuthedRequestsCarryTokens ==
    \A i \in DOMAIN requests :
        requests[i].authed =>
            LET h == requests[i].headers
            IN  /\ "authorization" \in DOMAIN h
                /\ h["authorization"] = <<"Bearer ", bearer_token>>
                /\ "x-guest-token" \in DOMAIN h
                /\ h["x-guest-token"] = <<guest_token>>
                /\ \A k \in DOMAIN BrowserHeaders :
                      k \in DOMAIN h /\ h[k] = BrowserHeaders[k]

\* C4: when the download of a variant fails, no request was issued for a
\* later variant, the files of the variants completed before it are on
\* storage, whole, and the file of the failed variant is not.
C4_FirstFailureAborts ==
    (pc = "failed" /\ dl.st = "raised") =>
        /\ Len(VideoRequests) = idx + 1
        /\ \A k \in 1..(idx + 1) : VideoRequests[k].arg = <<UrlOf(k)>>
        /\ error \in {"RequestException", "OSError", "ValueError"}
        /\ \A k \in 1..idx :
              /\ NameOf(k) \in DOMAIN fs
              /\ fs[NameOf(k)] = WholeBody(UrlOf(LastNamed(k, idx)))
        /\ NameOf(idx + 1) \notin DOMAIN fs

\* C5: after a run without error the files written are exactly the files
\* tweet_<id>_<bitrate>.mp4 of the retained variants, each holding the whole
\* body of the last variant in list order that has its bitrate.
C5_FilesAfterSuccess ==
    pc = "done" =>
        /\ tweet_id = ExtractTweetId(tweet_url).val
        /\ DOMAIN fs = {NameOf(k) : k \in 1..Len(video_variants)}
        /\ \A k \in 1..Len(video_variants) :
              fs[NameOf(k)] = WholeBody(UrlOf(LastNamed(k, Len(video_variants))))

C5_Witness ==
    /\ pc = "done"
    /\ Len(video_variants) = 2
    /\ NameOf(1) = NameOf(2)
    /\ UrlOf(1) # UrlOf(2)
    /\ server[UrlOf(1)] # server[UrlOf(2)]

\* The path resolves and no variant entry has the content type video/mp4.
NoSupportedVariant(data) ==
    /\ HasVariantList(data)
    /\ \A i \in DOMAIN VariantEntries(data) :
          /\ HasField(VariantEntries(data)[i], "content_type")
          /\ ~IsMP4(VariantEntries(data)[i])

\* C6: when the path resolves but no variant is video/mp4, the extractor
\* returns the empty list without raising, download_video fails with "No
\* video found", which is not the extraction failure, no download request
\* is issued and no file is written.
C6_NoMediaIsNotExtractionFailure ==
    ("extract" \in {stages[i] : i \in DOMAIN stages} /\ NoSupportedVariant(tweet_data)) =>
        /\ video_variants = <<>>
        /\ pc = "failed"
        /\ error = NoVideoError
        /\ error # ExtractionError
        /\ VideoRequests = <<>>
        /\ DOMAIN fs = {}

C6_Witness ==
    /\ pc = "failed"
    /\ error = NoVideoError
    /\ NoSupportedVariant(tweet_data)
    /\ Len(VariantEntries(tweet_data)) = 2

\* C7: on every description that is not well formed the extractor fails
\* with the extraction error, and no other kind of error leaves it.
C7_MalformedRaisesExtractionError ==
    \A i \in DOMAIN results :
        /\ results[i].exc \in {"none", ExtractionError}
        /\ ~WellFormed(tweet_data) => results[i].exc = ExtractionError

\* The places of the video/mp4 entries in the variant list.
MP4Places(data) == {i \in DOMAIN VariantEntries(data) : IsMP4(VariantEntries(data)[i])}

\* C8: on a well-formed description the extractor returns the video/mp4
\* entries and no others, in their order, each with its url and with
\* bitrate 0 where the entry has none; a second call returns the same.
C8_ExtractsMP4InOrder ==
    (WellFormed(tweet_data) /\ results # <<>>) =>
        /\ \A c \in DOMAIN results :
              /\ results[c].exc = "none"
              /\ Len(results[c].val) = Cardinality(MP4Places(tweet_data))
              /\ \A i \in MP4Places(tweet_data) :
                    LET entry == VariantEntries(tweet_data)[i]
                        got   == results[c].val[Cardinality({j \in MP4Places(tweet_data) : j <= i})]
                    IN  /\ got.url = entry.map["url"]
                        /\ got.content_type = JStr(MP4)
                        /\ got.bitrate = IF "bitrate" \in DOMAIN entry.map
                                         THEN entry.map["bitrate"] ELSE JInt(0)
        /\ \A c \in DOMAIN results : results[c] = results[1]

C8_Witness ==
    /\ WellFormed(tweet_data)
    /\ Len(results) = 2
    /\ Len(VariantEntries(tweet_data)) = 2
    /\ MP4Places(tweet_data) = {2}
    /\ "bitrate" \notin DOMAIN VariantEntries(tweet_data)[2].map

\* C9: a download of known length logs at most 11 percentages, and none
\* of them twice.
C9_AtMostElevenNoRepeat ==
    dl.total_size # 0 =>
        /\ Len(progress) <= 11
        /\ \A i, j \in DOMAIN progress : i # j => progress[i] # progress[j]

\* C10: while a body of known length arrives in chunks of a tenth of it, the
\* percentage after each chunk is floor(downloaded * 100 / total_size) and
\* the percentages logged are 10, 20, ..., one per chunk and no other; at
\* the end they are 10, 20, ..., 100.
C10_TenthsLogTenToHundred ==
    (dl.st \in {"writing", "done"} /\ dl.total_size # 0 /\ uniform) =>
        LET chunks == (dl.downloaded * 10) \div dl.total_size
        IN  /\ dl.downloaded > 0 =>
                  dl.percentage = (dl.downloaded * 100) \div dl.total_size
            /\ progress = [i \in 1..chunks |-> 10 * i]
            /\ dl.st = "done" => progress = <<10, 20, 30, 40, 50, 60, 70, 80, 90, 100>>

C10_Witness ==
    /\ dl.st = "done"
    /\ dl.total_size = 1000
    /\ dl.chunk = 100
    /\ uniform
    /\ progress = <<10, 20, 30, 40, 50, 60, 70, 80, 90, 100>>

====
